---- MODULE Spec2Model ----
(***************************************************************************)
(* SlidesDataModule (src/src/datamodules/slides_datamodule.py): the        *)
(* train/val/test split of a slide dataset, the per-slide patch expansion  *)
(* of the three index lists, and the lifecycle hooks around them.          *)
(*                                                                         *)
(* Two module instances (two DDP processes) are launched with the same     *)
(* hyper-parameters over the same slides file.  Python lists are modelled  *)
(* as sequences (position k of a list is position k+1 of the sequence),    *)
(* the stored indices themselves are the 0-based Python values.            *)
(***************************************************************************)
EXTENDS Integers, Sequences, FiniteSets, TLC

\* ---------------------------------------------------------------- bounds
MaxSamples    == 3     \* len(dataset) ranges over 0..MaxSamples
MaxPatch      == 2     \* patch_per_slide ranges over 1..MaxPatch
Den           == 10    \* split fractions are k/Den, k in 0..Den
MaxSetupCalls == 2     \* setup calls per instance
NumProcs      == 2     \* module instances (processes)

Procs == 1..NumProcs

\* ------------------------------------------------- defaults of __init__
batch_size  == 64
num_workers == 0
pin_memory  == FALSE
num_classes == 2

VARIABLES
    hparams,        \* self.hparams, the same in every process
    total_samples,  \* len(SlidesDataset(slides_file, ...))
    seed42_perm,    \* what randperm(total_samples) yields from a generator seeded 42
    data_train,     \* self.data_train of each instance
    data_val,       \* self.data_val
    data_test,      \* self.data_test
    dataset,        \* the SlidesDataset each instance built: how many, and its patch_per_slide
    split,          \* the last random_split of each instance: lengths asked, index lists returned
    setup_calls,    \* setup calls made on each instance
    last            \* the last call made: instance, method, whether it raised, return value

vars == <<hparams, total_samples, seed42_perm, data_train, data_val, data_test,
          dataset, split, setup_calls, last>>

partitions == <<data_train, data_val, data_test>>

\* ------------------------------------------------------------- helpers
RECURSIVE Sum(_)
Sum(s) == IF s = <<>> THEN 0 ELSE Head(s) + Sum(Tail(s))

Range(s) == {s[k] : k \in 1..Len(s)}

NoDup(s) == \A a, b \in 1..Len(s) : a # b => s[a] # s[b]

\* all orders of 0..n-1
Perms(n) == {p \in [1..n -> 0..(n-1)] : \A a, b \in 1..n : a # b => p[a] # p[b]}

\* non-negative fraction triples (in units of 1/Den) that sum to 1
Splits == {s \in (0..Den) \X (0..Den) \X (0..Den) : s[1] + s[2] + s[3] = Den}

\* None, and a torch Subset holding an index list
None == [none |-> TRUE, indices |-> <<>>]
Subset(indices) == [none |-> FALSE, indices |-> indices]

\* Python truth value: None is false, a Subset is true iff its __len__ is non-zero
Truthy(d) == ~d.none /\ Len(d.indices) # 0

\* int(f * n) for the fraction f = k/Den: truncation of the product.  For the
\* fractions and sizes explored here the double product truncates to the
\* same integer as the exact one (0.3*3 -> 0, 0.7*10 -> 7).
IntMul(k, n) == (k * n) \div Den

NoReturn == [kind |-> "None"]
EmptyDict == [kind |-> "dict", items |-> {}]
StateDicts == { {}, {<<"anything", 1>>} }

\* ------------------------------------------------------- split arithmetic
train_samples == IntMul(hparams.train_val_test_split[1], total_samples)

val_samples == IntMul(hparams.train_val_test_split[2], total_samples)

\* mutants of test_samples
test_samples_floor == IntMul(hparams.train_val_test_split[3], total_samples)

test_samples_no_val == total_samples - train_samples

test_samples == total_samples - train_samples - val_samples

\* torch.randperm(n, generator=torch.Generator().manual_seed(42)): a generator
\* freshly seeded with 42 yields one fixed order, in every call and process
randperm_default(n) == Perms(n)

randperm(n) == {seed42_perm}

\* random_split hands out consecutive slices of the permutation
random_split_overlap(perm, lengths) ==
    << SubSeq(perm, 1, lengths[1]),
       SubSeq(perm, 1, lengths[2]),
       SubSeq(perm, lengths[1] + lengths[2] + 1, lengths[1] + lengths[2] + lengths[3]) >>

random_split(perm, lengths) ==
    << SubSeq(perm, 1, lengths[1]),
       SubSeq(perm, lengths[1] + 1, lengths[1] + lengths[2]),
       SubSeq(perm, lengths[1] + lengths[2] + 1, lengths[1] + lengths[2] + lengths[3]) >>

\* ------------------------------------------------------------ expansion
\* mutant of ExpandOffset: the offset added without scaling the slide index
ExpandOffsetUnscaled(indices, P, j) == [k \in 1..Len(indices) |-> indices[k] + j]

\* the inner loop `for i in indices` at a fixed offset j: i*P + j
ExpandOffset(indices, P, j) == [k \in 1..Len(indices) |-> indices[k] * P + j]

\* the outer loop `for j in range(P)`, offsets 0..upto-1 done
RECURSIVE ExpandLoop(_, _, _)
ExpandLoop(indices, P, upto) ==
    IF upto <= 0 THEN <<>>
    ELSE ExpandLoop(indices, P, upto - 1) \o ExpandOffset(indices, P, upto - 1)

\* mutants of Expand: slide-major order, and one offset short
RECURSIVE ExpandSlideMajor(_, _)
ExpandSlideMajor(indices, P) ==
    IF indices = <<>> THEN <<>>
    ELSE [j \in 1..P |-> Head(indices) * P + (j - 1)] \o ExpandSlideMajor(Tail(indices), P)

ExpandShort(indices, P) == ExpandLoop(indices, P, P - 1)

Expand(indices, P) == ExpandLoop(indices, P, P)

\* ------------------------------------------------------------------ Init
Init ==
    /\ total_samples \in 0..MaxSamples
    /\ seed42_perm \in Perms(total_samples)
    /\ hparams \in [ patch_per_slide : 1..MaxPatch,
                     train_val_test_split : Splits,
                     batch_size : {batch_size},
                     num_workers : {num_workers},
                     pin_memory : {pin_memory} ]
    /\ data_train = [i \in Procs |-> None]
    /\ data_val = [i \in Procs |-> None]
    /\ data_test = [i \in Procs |-> None]
    /\ dataset = [i \in Procs |-> [built |-> 0, patch_per_slide |-> 0]]
    /\ split = [i \in Procs |-> [count |-> 0, lengths |-> <<0, 0, 0>>,
                                   indices |-> <<<<>>, <<>>, <<>>>>]]
    /\ setup_calls = [i \in Procs |-> 0]
    /\ last = [inst |-> 0, op |-> "__init__", raised |-> FALSE, ret |-> NoReturn]

Called(i, op, ret) == last' = [inst |-> i, op |-> op, raised |-> FALSE, ret |-> ret]

Raised(i, op, err) == last' = [inst |-> i, op |-> op, raised |-> TRUE, ret |-> [kind |-> err]]

\* ----------------------------------------------------------------- setup
\* the body under the guard: build the dataset, split it, expand the lists
LoadAndSplit(i) ==
    \E perm \in randperm(total_samples) :
        LET lengths == <<train_samples, val_samples, test_samples>>
            P == hparams.patch_per_slide
        IN  IF Sum(lengths) # total_samples
            THEN \* random_split: "Sum of input lengths does not equal the length
                 \* of the input dataset!"
                 /\ dataset' = [dataset EXCEPT ![i].built = @ + 1]
                 /\ split' = [split EXCEPT ![i].lengths = lengths]
                 /\ UNCHANGED partitions
                 /\ Raised(i, "setup", "ValueError")
            ELSE LET parts == random_split(perm, lengths)
                 IN  /\ dataset' = [dataset EXCEPT ![i] =
                                       [built |-> @.built + 1, patch_per_slide |-> P]]
                     /\ split' = [split EXCEPT ![i] =
                                       [count |-> @.count + 1, lengths |-> lengths,
                                        indices |-> parts]]
                     /\ data_train' = [data_train EXCEPT ![i] = Subset(Expand(parts[1], P))]
                     /\ data_val' = [data_val EXCEPT ![i] = Subset(Expand(parts[2], P))]
                     /\ data_test' = [data_test EXCEPT ![i] = Subset(Expand(parts[3], P))]
                     /\ Called(i, "setup", NoReturn)

\* mutant of setup: the expansion placed after the guarded block, so that it
\* runs on every call
setup_expand_always(i) ==
    /\ setup_calls[i] < MaxSetupCalls
    /\ setup_calls' = [setup_calls EXCEPT ![i] = @ + 1]
    /\ UNCHANGED <<hparams, total_samples, seed42_perm>>
    /\ IF ~Truthy(data_train[i]) /\ ~Truthy(data_val[i]) /\ ~Truthy(data_test[i])
       THEN LoadAndSplit(i)
       ELSE LET P == hparams.patch_per_slide
            IN  /\ data_train' = [data_train EXCEPT ![i] = Subset(Expand(@.indices, P))]
                /\ data_val' = [data_val EXCEPT ![i] = Subset(Expand(@.indices, P))]
                /\ data_test' = [data_test EXCEPT ![i] = Subset(Expand(@.indices, P))]
                /\ UNCHANGED <<dataset, split>>
                /\ Called(i, "setup", NoReturn)

setup(i) ==
    /\ setup_calls[i] < MaxSetupCalls
    /\ setup_calls' = [setup_calls EXCEPT ![i] = @ + 1]
    /\ UNCHANGED <<hparams, total_samples, seed42_perm>>
    /\ IF ~Truthy(data_train[i]) /\ ~Truthy(data_val[i]) /\ ~Truthy(data_test[i])
       THEN LoadAndSplit(i)
       ELSE /\ UNCHANGED <<partitions, dataset, split>>
            /\ Called(i, "setup", NoReturn)

\* ------------------------------------------------------- batch endpoints
DataLoader(d, shuffle) ==
    [kind |-> "DataLoader", dataset |-> d, batch_size |-> hparams.batch_size,
     num_workers |-> hparams.num_workers, pin_memory |-> hparams.pin_memory,
     shuffle |-> shuffle]

Frame == UNCHANGED <<hparams, total_samples, seed42_perm, partitions, dataset,
                     split, setup_calls>>

train_dataloader(i) == Called(i, "train_dataloader", DataLoader(data_train[i], TRUE)) /\ Frame

val_dataloader(i) == Called(i, "val_dataloader", DataLoader(data_val[i], FALSE)) /\ Frame

test_dataloader(i) == Called(i, "test_dataloader", DataLoader(data_test[i], FALSE)) /\ Frame

\* ----------------------------------------------------------------- hooks
prepare_data(i) == Called(i, "prepare_data", NoReturn) /\ Frame

\* mutant of teardown: the partitions released on clean-up
teardown_clears(i) ==
    /\ Called(i, "teardown", NoReturn)
    /\ data_train' = [data_train EXCEPT ![i] = None]
    /\ data_val' = [data_val EXCEPT ![i] = None]
    /\ data_test' = [data_test EXCEPT ![i] = None]
    /\ UNCHANGED <<hparams, total_samples, seed42_perm, dataset, split, setup_calls>>

teardown(i) == Called(i, "teardown", NoReturn) /\ Frame

state_dict(i) == Called(i, "state_dict", EmptyDict) /\ Frame

load_state_dict(i, sd) == Called(i, "load_state_dict", NoReturn) /\ Frame

\* ------------------------------------------------------------------ Next
Next ==
    \/ \E i \in Procs : setup(i)
    \/ \E i \in Procs : train_dataloader(i)
    \/ \E i \in Procs : val_dataloader(i)
    \/ \E i \in Procs : test_dataloader(i)
    \/ \E i \in Procs : prepare_data(i)
    \/ \E i \in Procs : teardown(i)
    \/ \E i \in Procs : state_dict(i)
    \/ \E i \in Procs, sd \in StateDicts : load_state_dict(i, sd)

Spec == Init /\ [][Next]_vars

\* ---------------------------------------------------------------- claims
\* instance i has run the guarded block of setup to its end
Done(i) == split[i].count >= 1

P_ == hparams.patch_per_slide

Lists(i) == <<data_train[i].indices, data_val[i].indices, data_test[i].indices>>

Abs(x) == IF x < 0 THEN -x ELSE x

\* C1: two instances with the same configuration that have both run setup
\* hold the same train, val and test index lists.
C1_CrossInstanceDeterminism ==
    \A i, j \in Procs :
        Done(i) /\ Done(j) =>
            /\ data_train[i] = data_train[j]
            /\ data_val[i] = data_val[j]
            /\ data_test[i] = data_test[j]

C1_Witness ==
    /\ Done(1) /\ Done(2)
    /\ total_samples >= 3
    /\ \A k \in 1..3 : Len(Lists(1)[k]) >= 1

\* C2: the three index lists random_split returns are pairwise disjoint,
\* repeat no index, and together hold exactly 0..total_samples-1.
C2_PartitionOfIndices ==
    \A i \in Procs :
        Done(i) =>
            LET I == split[i].indices
            IN  /\ \A a, b \in 1..3 : a # b => Range(I[a]) \cap Range(I[b]) = {}
                /\ \A a \in 1..3 : NoDup(I[a])
                /\ Range(I[1]) \cup Range(I[2]) \cup Range(I[3]) = 0..(total_samples - 1)

C2_Witness ==
    /\ Done(1)
    /\ total_samples >= 3
    /\ \A k \in 1..3 : Len(split[1].indices[k]) >= 1

\* C3: for total_samples >= 1 the three counts setup computes add up to
\* total_samples, and each partition receives exactly its count of indices.
C3_CountsSumToTotal ==
    \A i \in Procs :
        setup_calls[i] >= 1 /\ total_samples >= 1 =>
            /\ Sum(split[i].lengths) = total_samples
            /\ split[i].lengths[1] = IntMul(hparams.train_val_test_split[1], total_samples)
            /\ split[i].lengths[2] = IntMul(hparams.train_val_test_split[2], total_samples)
            /\ Done(i)
            /\ \A k \in 1..3 : Len(split[i].indices[k]) = split[i].lengths[k]

\* a split where both floors lose a fraction, so the remainder absorbs it
C3_Witness ==
    /\ setup_calls[1] >= 1
    /\ total_samples >= 1
    /\ (hparams.train_val_test_split[1] * total_samples) % Den # 0
    /\ (hparams.train_val_test_split[2] * total_samples) % Den # 0
    /\ split[1].lengths[3] >= 1

\* C4: each expanded list is P times as long as the list it came from, and
\* holds each i*P + j (i in the original list, 0 <= j < P) exactly once.
C4_ExpandedContents ==
    \A i \in Procs :
        Done(i) =>
            \A k \in 1..3 :
                LET I == split[i].indices[k]
                    E == Lists(i)[k]
                IN  /\ Len(E) = P_ * Len(I)
                    /\ Range(E) = {x * P_ + j : x \in Range(I), j \in 0..(P_ - 1)}
                    /\ NoDup(E)

C4_Witness ==
    /\ Done(1)
    /\ P_ >= 2
    /\ Len(split[1].indices[1]) >= 2

\* C5: after setup no expanded index belongs to two partitions.
C5_ExpandedDisjoint ==
    \A i \in Procs :
        Done(i) =>
            \A a, b \in 1..3 :
                a # b => Range(Lists(i)[a]) \cap Range(Lists(i)[b]) = {}

C5_Witness ==
    /\ Done(2)
    /\ P_ >= 2
    /\ \A k \in 1..3 : Len(Lists(2)[k]) >= 2

\* C6: a second or later setup call on an instance leaves its three index
\* lists as the first call left them; each stays P times its original length.
C6_SetupIdempotent ==
    [][ \A i \in Procs :
            setup_calls[i] >= 1 /\ setup_calls'[i] > setup_calls[i] =>
                /\ data_train'[i] = data_train[i]
                /\ data_val'[i] = data_val[i]
                /\ data_test'[i] = data_test[i]
                /\ \A k \in 1..3 :
                       Len(Lists(i)[k])' = P_ * Len(split[i].indices[k]) ]_vars

C6_Witness ==
    /\ setup_calls[1] >= 2
    /\ P_ >= 2
    /\ Len(data_train[1].indices) >= 2

\* C7: however often setup is called on an instance, it builds the dataset
\* and computes the split exactly once.
C7_SplitExactlyOnce ==
    \A i \in Procs :
        setup_calls[i] >= 1 => dataset[i].built = 1 /\ split[i].count = 1

\* C8: state_dict returns an empty mapping; state_dict, load_state_dict,
\* prepare_data and teardown do not raise and change neither the partitions
\* nor the configuration.
NoOpHooks == {"state_dict", "load_state_dict", "prepare_data", "teardown"}

C8_HooksChangeNothing ==
    [][ last'.op \in NoOpHooks =>
            /\ UNCHANGED <<partitions, hparams, dataset, split>>
            /\ ~last'.raised
            /\ last'.op = "state_dict" =>
                   last'.ret.kind = "dict" /\ last'.ret.items = {} ]_vars

C8_Witness ==
    /\ last.op = "teardown"
    /\ Done(last.inst)
    /\ Truthy(data_train[last.inst])

\* C9 as stated: the remainder test_count is within 1 of floor(f_test * n).
C9_TestCountWithinOne ==
    \A i \in Procs :
        setup_calls[i] >= 1 /\ total_samples >= 1 =>
            Abs(split[i].lengths[3]
                - IntMul(hparams.train_val_test_split[3], total_samples)) <= 1

\* C9 amended: the remainder test_count is within 2 of floor(f_test * n).
C9_TestCountWithinTwo ==
    \A i \in Procs :
        setup_calls[i] >= 1 /\ total_samples >= 1 =>
            Abs(split[i].lengths[3]
                - IntMul(hparams.train_val_test_split[3], total_samples)) <= 2

C9_Witness ==
    /\ setup_calls[1] >= 1
    /\ total_samples >= 1
    /\ split[1].lengths[3]
         - IntMul(hparams.train_val_test_split[3], total_samples) = 2

\* C10: the expanded list is replica-major: position k (from 0) holds
\* I[k mod n] * P + (k div n); the val and test endpoints do not shuffle
\* and iterate over exactly that list.
C10_ReplicaMajorOrder ==
    /\ \A i \in Procs :
          Done(i) =>
              \A k \in 1..3 :
                  LET I == split[i].indices[k]
                      E == Lists(i)[k]
                      n == Len(I)
                  IN  \A pos \in 0..(n * P_ - 1) :
                          /\ pos + 1 \in DOMAIN E
                          /\ E[pos + 1] = I[(pos % n) + 1] * P_ + (pos \div n)
    /\ last.op = "val_dataloader" =>
          ~last.ret.shuffle /\ last.ret.dataset = data_val[last.inst]
    /\ last.op = "test_dataloader" =>
          ~last.ret.shuffle /\ last.ret.dataset = data_test[last.inst]

C10_Witness ==
    /\ last.op = "val_dataloader"
    /\ Done(last.inst)
    /\ P_ >= 2
    /\ Len(split[last.inst].indices[2]) >= 2

====
